---- MODULE Spec2Model ----
(***************************************************************************)
(* A model of the tour-date scraper (src/python/tour_scraper.py): the      *)
(* eligibility rule validate_tour_date, the store write path               *)
(* insert_performances, the range scan fetch_box_scores_for_range and the  *)
(* command main.                                                           *)
(*                                                                         *)
(* The specifications share the variables:                                 *)
(*   SpecValidate  calls of validate_tour_date on bounded inputs           *)
(*   SpecStore     calls of insert_performances on arbitrary batches       *)
(*   Spec          runs of main (scan, filter, optional write);            *)
(*   FairSpec      is Spec with the fairness of a sequential program       *)
(*   SpecRerun     main run twice on the same command line                 *)
(*   SpecScrape    calls of scrape_game_box_score on bounded documents     *)
(***************************************************************************)
EXTENDS Integers, Sequences, FiniteSets, TLC

VARIABLES
    vt,            \* the current call of validate_tour_date
    store,         \* the rows of table tour_dates
    before,        \* the rows of tour_dates when the current call began
    call,          \* the current call of insert_performances
    pc,            \* position of main / the scan generator
    args,          \* the parsed command line of main
    current,       \* fetch_box_scores_for_range: the day being scanned
    games,         \* the games of the current day not yet looked at
    seen_ids,      \* fetch_box_scores_for_range: seen_ids
    performances,  \* the performances yielded so far
    web,           \* the documents the transport has returned so far
    log,           \* what this run requested and how each request ended
    first,         \* what the previous run of main left, once main is run again
    sc             \* the current call of scrape_game_box_score

vars == <<vt, store, before, call, pc, args, current, games, seen_ids,
          performances, web, log, first, sc>>

(***************************************************************************)
(* Bounds.                                                                 *)
(***************************************************************************)
MaxCount == 33     \* shot counts range over -1..MaxCount
MaxBatch == 2      \* longest batch handed to insert_performances
MaxDay   == 2      \* calendar days are 1..MaxDay
MaxSections == 2   \* most team sections of a box-score document of SpecScrape
MaxRows == 2       \* most player rows of a section of SpecScrape

(***************************************************************************)
(* Floats.  A percentage is a Python float: either NaN or a number, kept   *)
(* here in thousandths.  Every comparison with NaN is false.               *)
(***************************************************************************)
NaN == [nan |-> TRUE, v |-> 0]

Num(thousandths) == [nan |-> FALSE, v |-> thousandths]

FloatGE(a, b) == ~a.nan /\ ~b.nan /\ a.v >= b.v

\* 0.50, the literal of validate_tour_date, in thousandths
PCT_LIMIT == 500

PctValues == {Num(0), Num(300), Num(450), Num(499), Num(500), Num(501),
              Num(1000), Num(1200), NaN}

Counts == -1 .. MaxCount

(***************************************************************************)
(* validate_tour_date                                                      *)
(***************************************************************************)
MONTH_DAY_LIMITS == <<31, 28, 31, 30, 31, 30, 31, 31, 30, 31, 30, 31>>

validate_tour_date(fgm, fga, fg_pct) ==
    IF ~(1 <= fgm /\ fgm <= 12) THEN FALSE
    ELSE LET month_max == MONTH_DAY_LIMITS[fgm] IN
         \* month_max is never None here: fgm is a key of the table
         IF fga > month_max THEN FALSE
         ELSE IF fga <= fgm THEN FALSE
         ELSE IF fga > 31 THEN FALSE
         ELSE IF FloatGE(fg_pct, Num(PCT_LIMIT)) THEN FALSE
         ELSE TRUE

VtIdle == [fgm |-> 0, fga |-> 0, fg_pct |-> Num(0), done |-> FALSE, ret |-> FALSE]

(***************************************************************************)
(* TourDatePerformance and the rows of tour_dates.  A row has the columns  *)
(* of the INSERT statement; game_date is kept as the day number whose ISO  *)
(* text the row holds.                                                     *)
(***************************************************************************)
Seasons == {"2025-26", "2024-25"}

GameIds == {"101", "102"}

TourDatePerformance(season, player_name, team_abbr, opponent_abbr, game_id, game_date, line) ==
    [season |-> season, player_name |-> player_name, team_abbr |-> team_abbr,
     opponent_abbr |-> opponent_abbr, game_id |-> game_id,
     game_date |-> game_date,
     fgm |-> line.fgm, fga |-> line.fga, fg_pct |-> line.fg_pct]

is_valid_tour_date(perf) == validate_tour_date(perf.fgm, perf.fga, perf.fg_pct)

\* the conflict target of the INSERT: (season, game_id, player_name)
Key(r) == <<r.season, r.game_id, r.player_name>>

ShotLine(fgm, fga, fg_pct) == [fgm |-> fgm, fga |-> fga, fg_pct |-> fg_pct]

\* shooting lines: two that qualify, one with equal counts, one whose
\* percentage cell parsed to NaN
LineA == ShotLine(3, 10, Num(300))

LineB == ShotLine(5, 31, Num(450))

LineC == ShotLine(4, 4, Num(1000))

LineN == ShotLine(2, 28, NaN)

(***************************************************************************)
(* insert_performances                                                     *)
(***************************************************************************)
\* a plain INSERT: no conflict clause
PlainInsert(rows, v) == rows \cup {v}

\* ON CONFLICT ... DO NOTHING, the clause of insert_seed_data
InsertOrIgnore(rows, v) ==
    IF \E r \in rows : Key(r) = Key(v) THEN rows ELSE rows \cup {v}

\* INSERT ... ON CONFLICT(season, game_id, player_name) DO UPDATE SET
\*   fgm = excluded.fgm, fga = excluded.fga, fg_pct = excluded.fg_pct
Upsert(rows, v) ==
    IF \E r \in rows : Key(r) = Key(v)
    THEN {IF Key(r) = Key(v)
          THEN [r EXCEPT !.fgm = v.fgm, !.fga = v.fga, !.fg_pct = v.fg_pct]
          ELSE r : r \in rows}
    ELSE rows \cup {v}

\* conn.executemany(query, values): the statement once per tuple, in order
RECURSIVE ExecuteMany(_, _)
ExecuteMany(rows, values) ==
    IF values = <<>> THEN rows
    ELSE ExecuteMany(Upsert(rows, Head(values)), Tail(values))

\* a context manager that commits whatever was written when the body raises
CommitPartial(rows_before, rows_written) == rows_written

\* "with conn:" when the body raises: the transaction is rolled back
Rollback(rows_before, rows_written) == rows_before

\* values = [... for perf in performances if perf.is_valid_tour_date]
EligibleValues(perfs) == SelectSeq(perfs, is_valid_tour_date)

\* The whole of insert_performances on table rows `rows`.  fail = 0: no
\* write fails; fail = i > 0: the i-th execution of the statement raises.
insert_performances(rows, perfs, fail) ==
    LET values == EligibleValues(perfs) IN
    IF values = <<>> THEN [rows |-> rows, raised |-> FALSE, ret |-> 0]
    ELSE IF fail = 0
         THEN [rows |-> ExecuteMany(rows, values), raised |-> FALSE,
               ret |-> Len(values)]
         ELSE [rows |-> Rollback(rows,
                            ExecuteMany(rows, SubSeq(values, 1, fail - 1))),
               raised |-> TRUE, ret |-> 0]

\* where a write of the batch can fail: nowhere, or at one of its tuples
FailPoints(perfs) == 0 .. Len(EligibleValues(perfs))

CallIdle == [state |-> "idle", performances |-> <<>>, fail |-> 0,
             raised |-> FALSE, ret |-> 0]

\* the keys and lines the batches of SpecStore are drawn from: three keys
\* over two seasons, two games and two players
StoreKeys == {<<"2025-26", "101", "A. Guard">>, <<"2025-26", "101", "B. Center">>,
              <<"2024-25", "102", "A. Guard">>}

StoreLines == {LineA, LineB, LineC, LineN}

Candidates ==
    {TourDatePerformance(k[1], k[3], "BOS", "ATL", k[2], 1, l) :
        k \in StoreKeys, l \in StoreLines}

Batches == UNION {[1 .. n -> Candidates] : n \in 0 .. MaxBatch}

(***************************************************************************)
(* Documents.  A schedule document is the sequence of its game cards, each *)
(* card given by what extract_game_id makes of its href: a game id, or ""  *)
(* for a card with no href or no digit-only last token.  A box-score       *)
(* document is the sequence of its team sections, each with the text of    *)
(* its h2 header and the rows parse_player_rows yields for it.             *)
(***************************************************************************)
Days == 1 .. MaxDay

ScheduleDocs == {<<"101">>, <<"101", "102">>, <<"102", "", "102", "101">>}

Section(team_name, players) == [team_name |-> team_name, players |-> players]

PlayerRow(player_name, line) ==
    [player_name |-> player_name, fgm |-> line.fgm, fga |-> line.fga,
     fg_pct |-> line.fg_pct]

BoxDocs ==
    { <<>>,
      << Section("Boston Celtics", <<PlayerRow("A. Guard", LineA)>>),
         Section("Atlanta Hawks", <<PlayerRow("B. Center", LineC)>>) >>,
      << Section("Boston Celtics", <<PlayerRow("A. Guard", LineA)>>),
         Section("Atlanta Hawks", <<PlayerRow("A. Guard", LineB)>>) >>,
      << Section("Atlanta Hawks", <<PlayerRow("B. Center", LineN)>>) >>,
      << Section("Seattle SuperSonics", <<PlayerRow("A. Guard", LineA)>>),
         Section("Boston Celtics", <<PlayerRow("B. Center", LineB)>>) >> }

\* TEAM_NAME_TO_ABBR.get(team_name); "" stands for None
TEAM_NAME_TO_ABBR(team_name) ==
    CASE team_name = "Atlanta Hawks" -> "ATL"
      [] team_name = "Boston Celtics" -> "BOS"
      [] OTHER -> ""

GameMetadata(game_id, game_date) == [game_id |-> game_id, game_date |-> game_date]

\* iter_games_for_date on a fetched document: cards without an id and ids
\* already yielded are skipped, the rest keep the document's order
RECURSIVE IterCards(_, _, _)
IterCards(cards, seen, target_date) ==
    IF cards = <<>> THEN <<>>
    ELSE LET game_id == Head(cards) IN
         IF game_id = "" \/ game_id \in seen
         THEN IterCards(Tail(cards), seen, target_date)
         ELSE <<GameMetadata(game_id, target_date)>>
              \o IterCards(Tail(cards), seen \cup {game_id}, target_date)

iter_games_for_date(doc, target_date) == IterCards(doc, {}, target_date)

\* scrape_game_box_score: the teams list built from the sections
RECURSIVE TeamsOf(_)
TeamsOf(sections) ==
    IF sections = <<>> THEN <<>>
    ELSE LET section == Head(sections)
             team_abbr == TEAM_NAME_TO_ABBR(section.team_name)
         IN IF section.team_name = "" \/ team_abbr = "" \/ section.players = <<>>
            THEN TeamsOf(Tail(sections))
            ELSE <<[team_name |-> section.team_name, team_abbr |-> team_abbr,
                    players |-> section.players]>> \o TeamsOf(Tail(sections))

\* the performances of one team, in row order
TeamPerformances(team, opponent_abbr, game, season) ==
    [i \in 1 .. Len(team.players) |->
        TourDatePerformance(season, team.players[i].player_name, team.team_abbr,
                            opponent_abbr, game.game_id, game.game_date,
                            team.players[i])]

\* a pairing that takes the opponent from the team's own entry
RECURSIVE YieldTeamsOwnSide(_, _, _, _)
YieldTeamsOwnSide(teams, idx, game, season) ==
    IF idx > Len(teams) THEN <<>>
    ELSE LET opponent_abbr ==
                 IF Len(teams) = 2 THEN teams[idx].team_abbr ELSE "TBD"
         IN TeamPerformances(teams[idx], opponent_abbr, game, season)
            \o YieldTeamsOwnSide(teams, idx + 1, game, season)

\* the loop "for idx, team in enumerate(teams)"; idx counts from 1 here,
\* so teams[1 - idx] is teams[3 - idx]
RECURSIVE YieldTeams(_, _, _, _)
YieldTeams(teams, idx, game, season) ==
    IF idx > Len(teams) THEN <<>>
    ELSE LET opponent_abbr ==
                 IF Len(teams) = 2 THEN teams[3 - idx].team_abbr ELSE "TBD"
         IN TeamPerformances(teams[idx], opponent_abbr, game, season)
            \o YieldTeams(teams, idx + 1, game, season)

\* scrape_game_box_score on a fetched document
scrape_game_box_score(doc, game, season) ==
    LET teams == TeamsOf(doc) IN
    IF Len(teams) < 1 THEN <<>> ELSE YieldTeams(teams, 1, game, season)

\* a lookup that finds no stored game
NoExistingIds(rows, season) == {}

\* load_existing_game_ids
load_existing_game_ids(rows, season) ==
    {r.game_id : r \in {x \in rows : x.season = season}}

(***************************************************************************)
(* main and fetch_box_scores_for_range                                     *)
(***************************************************************************)
NoDoc == [got |-> FALSE, doc |-> <<>>]

Got(doc) == [got |-> TRUE, doc |-> doc]

WebEmpty == [sched |-> [d \in Days |-> NoDoc], box |-> [g \in GameIds |-> NoDoc]]

LogEmpty == [sched_reqs |-> <<>>, sched_ok |-> {}, box_reqs |-> <<>>, box_ok |-> {}]

ArgsNone == [season |-> "", since |-> 0, until |-> 0, dry_run |-> FALSE]

\* main has not been run before
NoFirst == [run |-> 1, store |-> {}, log |-> LogEmpty]

\* no call of scrape_game_box_score is under way
ScIdle == [doc |-> <<>>, done |-> TRUE, out |-> <<>>]

\* the table as init_db leaves it with its seed records
SeedRows ==
    {TourDatePerformance("2025-26", "A. Guard", "BOS", "ATL", "101", 1, LineA),
     TourDatePerformance("2024-25", "B. Center", "ATL", "BOS", "102", 1, LineB)}

\* the schedule handler that forgets to advance before "continue"
StayOnDay(day) == day

\* except requests.RequestException (schedule): current += 1; continue
AfterScheduleFailure(day) == day + 1

\* a box-score handler that gives up on the rest of the day
AbandonDay(gs) == <<>>

\* except requests.RequestException (box score): continue
AfterBoxFailure(gs) == Tail(gs)

\* a scan that never records the games it has looked at
NoMark(seen, game_id) == seen

\* seen_ids.add(game.game_id)
MarkSeen(seen, game_id) == seen \cup {game_id}

\* a main that writes whatever the flag says
main_tail_always_writes(rows, perfs, dry_run, fail) ==
    insert_performances(rows, SelectSeq(perfs, is_valid_tour_date), fail)

\* main from "valid = [...]" on: the dry run returns before the write
main_tail(rows, perfs, dry_run, fail) ==
    LET valid == SelectSeq(perfs, is_valid_tour_date) IN
    IF dry_run THEN [rows |-> rows, raised |-> FALSE, ret |-> 0]
    ELSE insert_performances(rows, valid, fail)

ScanIdle ==
    /\ pc = "idle"
    /\ args = ArgsNone
    /\ current = 0
    /\ games = <<>>
    /\ seen_ids = {}
    /\ performances = <<>>
    /\ web = WebEmpty
    /\ log = LogEmpty

StoreIdle == before = {} /\ call = CallIdle

scanVars == <<pc, args, current, games, seen_ids, performances, web, log>>

\* main up to the first step of the generator
Start(season, since, until, dry_run) ==
    /\ UNCHANGED <<first, sc>>
    /\ pc = "idle"
    /\ pc' = "scan"
    /\ args' = [season |-> season, since |-> since, until |-> until,
                dry_run |-> dry_run]
    /\ before' = store
    /\ seen_ids' = load_existing_game_ids(store, season)
    /\ current' = since
    /\ games' = <<>>
    /\ performances' = <<>>
    /\ log' = LogEmpty
    /\ UNCHANGED <<vt, store, call, web>>

\* the schedule fetch of the current day raises
ScheduleFail ==
    /\ UNCHANGED <<first, sc>>
    /\ pc = "scan"
    /\ current <= args.until
    /\ log' = [log EXCEPT !.sched_reqs = Append(@, current)]
    /\ current' = AfterScheduleFailure(current)
    /\ UNCHANGED <<vt, store, before, call, pc, args, games, seen_ids,
                   performances, web>>

\* the schedule fetch of the current day returns a document
ScheduleOk(doc) ==
    /\ UNCHANGED <<first, sc>>
    /\ pc = "scan"
    /\ current <= args.until
    /\ log' = [log EXCEPT !.sched_reqs = Append(@, current),
                          !.sched_ok = @ \cup {current}]
    /\ web' = [web EXCEPT !.sched[current] = Got(doc)]
    /\ games' = iter_games_for_date(doc, current)
    /\ pc' = "games"
    /\ UNCHANGED <<vt, store, before, call, args, current, seen_ids, performances>>

\* the next game of the day is in seen_ids
GameSkip ==
    /\ UNCHANGED <<first, sc>>
    /\ pc = "games"
    /\ games /= <<>>
    /\ Head(games).game_id \in seen_ids
    /\ games' = Tail(games)
    /\ UNCHANGED <<vt, store, before, call, pc, args, current, seen_ids,
                   performances, web, log>>

\* the next game is new and its box-score fetch raises
BoxFail ==
    /\ UNCHANGED <<first, sc>>
    /\ pc = "games"
    /\ games /= <<>>
    /\ Head(games).game_id \notin seen_ids
    /\ seen_ids' = MarkSeen(seen_ids, Head(games).game_id)
    /\ log' = [log EXCEPT !.box_reqs = Append(@, Head(games))]
    /\ games' = AfterBoxFailure(games)
    /\ UNCHANGED <<vt, store, before, call, pc, args, current, performances, web>>

\* the next game is new and its box-score fetch returns a document
BoxOk(doc) ==
    /\ UNCHANGED <<first, sc>>
    /\ pc = "games"
    /\ games /= <<>>
    /\ Head(games).game_id \notin seen_ids
    /\ seen_ids' = MarkSeen(seen_ids, Head(games).game_id)
    /\ log' = [log EXCEPT !.box_reqs = Append(@, Head(games)),
                          !.box_ok = @ \cup {Head(games).game_id}]
    /\ web' = [web EXCEPT !.box[Head(games).game_id] = Got(doc)]
    /\ performances' =
           performances \o scrape_game_box_score(doc, Head(games), args.season)
    /\ games' = Tail(games)
    /\ UNCHANGED <<vt, store, before, call, pc, args, current>>

\* the games of the day are exhausted: current += 1
DayDone ==
    /\ UNCHANGED <<first, sc>>
    /\ pc = "games"
    /\ games = <<>>
    /\ current' = current + 1
    /\ pc' = "scan"
    /\ UNCHANGED <<vt, store, before, call, args, games, seen_ids,
                   performances, web, log>>

\* the generator is exhausted: main filters, then returns (dry run) or
\* writes, and a write of the batch may fail
MainFinish ==
    /\ UNCHANGED <<first, sc>>
    /\ pc = "scan"
    /\ current > args.until
    /\ \E fail \in (IF args.dry_run THEN {0} ELSE FailPoints(performances)) :
          LET out == main_tail(store, performances, args.dry_run, fail) IN
          /\ store' = out.rows
          /\ pc' = IF out.raised THEN "crashed" ELSE "done"
          /\ call' = IF args.dry_run THEN call
                      ELSE [state |-> "returned",
                            performances |-> SelectSeq(performances, is_valid_tour_date),
                            fail |-> fail, raised |-> out.raised, ret |-> out.ret]
    /\ UNCHANGED <<vt, before, args, current, games, seen_ids, performances,
                   web, log>>

Init ==
    /\ first = NoFirst
    /\ sc = ScIdle
    /\ vt = VtIdle
    /\ store \in {{}, SeedRows}
    /\ StoreIdle
    /\ ScanIdle

ScanStep ==
    \/ ScheduleFail
    \/ \E doc \in ScheduleDocs : ScheduleOk(doc)
    \/ GameSkip
    \/ BoxFail
    \/ \E doc \in BoxDocs : BoxOk(doc)
    \/ DayDone
    \/ MainFinish

Next ==
    \/ \E season \in Seasons, since \in Days, until \in Days, dry_run \in BOOLEAN :
           Start(season, since, until, dry_run)
    \/ ScanStep

Spec == Init /\ [][Next]_vars

\* main runs to completion: no step of it waits on anything but a fetch,
\* and a fetch returns or raises within its timeout
FairSpec == Spec /\ WF_vars(ScanStep)

(***************************************************************************)
(* SpecRerun: main run once as in Spec and then, after it has returned,    *)
(* run a second time with the same command line against the table the     *)
(* first run left.  The transport answers the second run as it answered    *)
(* the first: a request whose fetch returned a document returns that       *)
(* document again, a request whose fetch raised raises again; a request    *)
(* the first run never made may end either way.                            *)
(***************************************************************************)
\* main is started again with the arguments of the run that has returned
Rerun ==
    /\ pc = "done"
    /\ first.run = 1
    /\ first' = [run |-> 2, store |-> store, log |-> log]
    /\ pc' = "scan"
    /\ before' = store
    /\ seen_ids' = load_existing_game_ids(store, args.season)
    /\ current' = args.since
    /\ games' = <<>>
    /\ performances' = <<>>
    /\ log' = LogEmpty
    /\ UNCHANGED <<vt, store, call, args, web, sc>>

\* the game ids whose box score the first run requested
RequestedBefore == {first.log.box_reqs[i].game_id : i \in DOMAIN first.log.box_reqs}

\* the documents the box-score request of a game may return to the second run
BoxDocsAgain(game_id) ==
    IF game_id \in first.log.box_ok THEN {web.box[game_id].doc}
    ELSE IF game_id \in RequestedBefore THEN {}
    ELSE BoxDocs

\* the schedule fetch of the day raised in the first run: it raises again
ScheduleFailAgain ==
    /\ first.run = 2
    /\ current \notin first.log.sched_ok
    /\ ScheduleFail

\* the schedule fetch of the day returns the document of the first run
ScheduleOkAgain ==
    /\ first.run = 2
    /\ current \in first.log.sched_ok
    /\ ScheduleOk(web.sched[current].doc)

GameSkipAgain == first.run = 2 /\ GameSkip

\* the box-score fetch of a game raises, unless it returned a document
\* in the first run
BoxFailAgain ==
    /\ first.run = 2
    /\ games /= <<>>
    /\ Head(games).game_id \notin first.log.box_ok
    /\ BoxFail

BoxOkAgain ==
    /\ first.run = 2
    /\ games /= <<>>
    /\ \E doc \in BoxDocsAgain(Head(games).game_id) : BoxOk(doc)

DayDoneAgain == first.run = 2 /\ DayDone

MainFinishAgain == first.run = 2 /\ MainFinish

ReplayStep ==
    \/ ScheduleFailAgain
    \/ ScheduleOkAgain
    \/ GameSkipAgain
    \/ BoxFailAgain
    \/ BoxOkAgain
    \/ DayDoneAgain
    \/ MainFinishAgain

\* the first run is a run of Spec
FirstRun == first.run = 1 /\ Next

NextRerun ==
    \/ FirstRun
    \/ Rerun
    \/ ReplayStep

SpecRerun == Init /\ [][NextRerun]_vars

(***************************************************************************)
(* SpecValidate: validate_tour_date called on every input of the bounded   *)
(* sets.                                                                   *)
(***************************************************************************)
Validate ==
    /\ UNCHANGED <<first, sc>>
    /\ ~vt.done
    /\ vt' = [vt EXCEPT !.done = TRUE,
                        !.ret = validate_tour_date(vt.fgm, vt.fga, vt.fg_pct)]
    /\ UNCHANGED <<store, before, call>>
    /\ UNCHANGED scanVars

InitValidate ==
    /\ first = NoFirst
    /\ sc = ScIdle
    /\ vt \in [fgm : Counts, fga : Counts, fg_pct : PctValues,
               done : {FALSE}, ret : {FALSE}]
    /\ store = {}
    /\ StoreIdle
    /\ ScanIdle

NextValidate == Validate

SpecValidate == InitValidate /\ [][NextValidate]_vars

(***************************************************************************)
(* SpecStore: insert_performances called again and again, from the empty   *)
(* table, on any batch, with a write failing anywhere or nowhere.          *)
(***************************************************************************)
InsertPerformances(perfs, fail) ==
    /\ UNCHANGED <<first, sc>>
    /\ call.state = "idle"
    /\ LET out == insert_performances(store, perfs, fail) IN
       /\ store' = out.rows
       /\ call' = [state |-> "returned", performances |-> perfs, fail |-> fail,
                   raised |-> out.raised, ret |-> out.ret]
    /\ before' = store
    /\ UNCHANGED vt
    /\ UNCHANGED scanVars

\* the caller goes on: what it knew of the call is dropped
Forget ==
    /\ UNCHANGED <<first, sc>>
    /\ call.state = "returned"
    /\ call' = CallIdle
    /\ before' = {}
    /\ UNCHANGED <<vt, store>>
    /\ UNCHANGED scanVars

InitStore ==
    /\ first = NoFirst
    /\ sc = ScIdle
    /\ vt = VtIdle
    /\ store = {}
    /\ StoreIdle
    /\ ScanIdle

NextStore ==
    \/ \E perfs \in Batches : \E fail \in FailPoints(perfs) :
           InsertPerformances(perfs, fail)
    \/ Forget

SpecStore == InitStore /\ [][NextStore]_vars

(***************************************************************************)
(* SpecScrape: scrape_game_box_score called on every box-score document    *)
(* of up to MaxSections sections, each with a recognised, an unrecognised  *)
(* or no h2 header and up to MaxRows player rows.                          *)
(***************************************************************************)
ScrapeTeamNames == {"Boston Celtics", "Atlanta Hawks", "Seattle SuperSonics", ""}

ScrapeRows == {PlayerRow("A. Guard", LineA), PlayerRow("B. Center", LineC)}

ScrapePlayers == UNION {[1 .. n -> ScrapeRows] : n \in 0 .. MaxRows}

ScrapeSections == {Section(t, p) : t \in ScrapeTeamNames, p \in ScrapePlayers}

ScrapeDocs == UNION {[1 .. n -> ScrapeSections] : n \in 0 .. MaxSections}

ScrapeGame == GameMetadata("101", 1)

ScrapeSeason == "2025-26"

Scrape ==
    /\ ~sc.done
    /\ sc' = [sc EXCEPT !.done = TRUE,
                        !.out = scrape_game_box_score(sc.doc, ScrapeGame,
                                                      ScrapeSeason)]
    /\ UNCHANGED <<vt, store, before, call, first>>
    /\ UNCHANGED scanVars

InitScrape ==
    /\ sc \in [doc : ScrapeDocs, done : {FALSE}, out : {<<>>}]
    /\ first = NoFirst
    /\ vt = VtIdle
    /\ store = {}
    /\ StoreIdle
    /\ ScanIdle

NextScrape == Scrape

SpecScrape == InitScrape /\ [][NextScrape]_vars

(***************************************************************************)
(* The claims.                                                             *)
(***************************************************************************)
\* a < b on floats: false when either is NaN
FloatLT(a, b) == ~a.nan /\ ~b.nan /\ a.v < b.v

\* the eligibility rule as the specification states it: five conditions,
\* the last one "pct < 0.50"
isEligible(made, attempted, pct) ==
    /\ 1 <= made /\ made <= 12
    /\ attempted > made
    /\ attempted <= MONTH_DAY_LIMITS[made]
    /\ attempted <= 31
    /\ FloatLT(pct, Num(PCT_LIMIT))

SameLine(r, p) == r.fgm = p.fgm /\ r.fga = p.fga /\ r.fg_pct = p.fg_pct

RowsOfKey(rows, k) == {r \in rows : Key(r) = k}

\* C1: validate_tour_date(made, attempted, pct) is true if and only if
\* 1 <= made <= 12, attempted > made, attempted <= daysInMonth(made),
\* attempted <= 31 and pct < 0.50, for every made, attempted and pct.
C1_ValidateIffRule ==
    vt.done => (vt.ret <=> isEligible(vt.fgm, vt.fga, vt.fg_pct))

\* C1, numbers only: on every percentage that is a number the function and
\* the stated rule agree; they differ on NaN alone.
C1_AgreeOnNumbers ==
    (vt.done /\ ~vt.fg_pct.nan) =>
        (vt.ret <=> isEligible(vt.fgm, vt.fga, vt.fg_pct))

\* C2: in every state reachable from the empty table by insert_performances
\* batches, the table holds at most one row per (season, game_id, player_name).
C2_OneRowPerKey ==
    \A r1 \in store, r2 \in store : Key(r1) = Key(r2) => r1 = r2

\* C2 witness: a committed batch that held one key twice, with different
\* qualifying lines, and the table holds that key.
C2_Witness ==
    /\ call.state = "returned" /\ ~call.raised
    /\ \E i \in DOMAIN call.performances, j \in DOMAIN call.performances :
          /\ i < j
          /\ Key(call.performances[i]) = Key(call.performances[j])
          /\ call.performances[i] /= call.performances[j]
          /\ is_valid_tour_date(call.performances[i])
          /\ is_valid_tour_date(call.performances[j])
          /\ RowsOfKey(store, Key(call.performances[i])) /= {}

\* the key of the i-th performance of the call was stored earlier: by an
\* earlier call, or by a qualifying performance earlier in the batch
StoredEarlier(i) ==
    \/ RowsOfKey(before, Key(call.performances[i])) /= {}
    \/ \E j \in 1 .. (i - 1) :
          /\ Key(call.performances[j]) = Key(call.performances[i])
          /\ is_valid_tour_date(call.performances[j])

\* the i-th performance is the last of its key in the batch
LastOfKey(i) ==
    \A j \in DOMAIN call.performances :
        j > i => Key(call.performances[j]) /= Key(call.performances[i])

\* the i-th performance is the last qualifying one of its key in the batch
LastValidOfKey(i) ==
    /\ is_valid_tour_date(call.performances[i])
    /\ \A j \in DOMAIN call.performances :
          (j > i /\ is_valid_tour_date(call.performances[j]))
              => Key(call.performances[j]) /= Key(call.performances[i])

\* every percentage the call met is a number
AllNumbers ==
    /\ \A r \in before : ~r.fg_pct.nan
    /\ \A j \in DOMAIN call.performances : ~call.performances[j].fg_pct.nan

\* C3 as stated: after a key is inserted a second time through
\* insert_performances, whatever the second values, the table holds exactly
\* one row of that key and the row has the second insertion's values.
C3_SecondValuesAlways ==
    (call.state = "returned" /\ ~call.raised /\ AllNumbers) =>
        \A i \in DOMAIN call.performances :
            (StoredEarlier(i) /\ LastOfKey(i)) =>
                /\ Cardinality(RowsOfKey(store, Key(call.performances[i]))) = 1
                /\ \A r \in RowsOfKey(store, Key(call.performances[i])) :
                      SameLine(r, call.performances[i])

\* C3 amended: when the second insertion passes validate_tour_date and its
\* batch commits, the table holds exactly one row of the key, with the second
\* insertion's values; when no performance of a key in the batch passes, the
\* rows of that key are left as they were.
C3_SecondValuesWhenValid ==
    (call.state = "returned" /\ ~call.raised) =>
        \A i \in DOMAIN call.performances :
            /\ (StoredEarlier(i) /\ LastValidOfKey(i)) =>
                  /\ Cardinality(RowsOfKey(store, Key(call.performances[i]))) = 1
                  /\ \A r \in RowsOfKey(store, Key(call.performances[i])) :
                        SameLine(r, call.performances[i])
            /\ (\A j \in DOMAIN call.performances :
                    Key(call.performances[j]) = Key(call.performances[i])
                        => ~is_valid_tour_date(call.performances[j]))
                  => RowsOfKey(store, Key(call.performances[i]))
                       = RowsOfKey(before, Key(call.performances[i]))

\* C3 witness: a committed call overwrote a row stored by an earlier call
\* with different values.
C3_Witness ==
    /\ call.state = "returned" /\ ~call.raised
    /\ \E i \in DOMAIN call.performances :
          /\ LastValidOfKey(i)
          /\ \E r \in before :
                /\ Key(r) = Key(call.performances[i])
                /\ ~SameLine(r, call.performances[i])
          /\ \E r \in store :
                /\ Key(r) = Key(call.performances[i])
                /\ SameLine(r, call.performances[i])

\* C4: the table never holds an ineligible row: every stored row's made,
\* attempted and percentage satisfy the eligibility rule, whatever batches
\* were handed to insert_performances.
C4_OnlyEligibleRows ==
    \A r \in store : isEligible(r.fgm, r.fga, r.fg_pct)

\* C5: a batch is all-or-nothing: if a write of the batch fails the table is
\* as it was before the call; if none fails, every performance of the batch
\* that passes the rule is in the table, with the values last written for
\* its key.
C5_AllOrNothing ==
    call.state = "returned" =>
        /\ call.fail > 0 => (call.raised /\ store = before)
        /\ call.fail = 0 =>
              /\ ~call.raised
              /\ \A i \in DOMAIN call.performances :
                    LastValidOfKey(i) =>
                        \E r \in store :
                            /\ Key(r) = Key(call.performances[i])
                            /\ SameLine(r, call.performances[i])
              /\ \A i \in DOMAIN call.performances :
                    is_valid_tour_date(call.performances[i]) =>
                        RowsOfKey(store, Key(call.performances[i])) /= {}

\* C5 witness: the second or a later write of a batch failed after a write
\* of a new key, and the table is as it was before the call.
C5_Witness ==
    /\ call.state = "returned" /\ call.raised /\ call.fail >= 2
    /\ store = before
    /\ RowsOfKey(before, Key(EligibleValues(call.performances)[1])) = {}

\* the days from since to until, ascending
DayRange(since, until) == [i \in 1 .. (until - since + 1) |-> since + i - 1]

Running == pc \in {"scan", "games"}

Finished == pc \in {"done", "crashed"}

\* the seen-set the scan was handed
InitialSeen == load_existing_game_ids(before, args.season)

\* the games a fetched schedule document of day d lists
Listed(d) == iter_games_for_date(web.sched[d].doc, d)

\* what the requested box scores yield, request by request: nothing for a
\* failed fetch, the scraped performances for a fetched document
RECURSIVE EmittedBy(_)
EmittedBy(reqs) ==
    IF reqs = <<>> THEN <<>>
    ELSE (IF Head(reqs).game_id \in log.box_ok
          THEN scrape_game_box_score(web.box[Head(reqs).game_id].doc,
                                     Head(reqs), args.season)
          ELSE <<>>)
         \o EmittedBy(Tail(reqs))

\* C6, the safety part: the schedule requests so far are the first days of
\* [since, until] in ascending order, each once; they are all of them when
\* the run has ended; no performance is dated on a day whose schedule fetch
\* failed; with since > until nothing is requested and nothing emitted.
C6_ScheduleOrder ==
    pc /= "idle" =>
        /\ \E k \in 0 .. Len(DayRange(args.since, args.until)) :
              log.sched_reqs = SubSeq(DayRange(args.since, args.until), 1, k)
        /\ Finished => log.sched_reqs = DayRange(args.since, args.until)
        /\ \A i \in DOMAIN performances :
              performances[i].game_date \in log.sched_ok
        /\ args.since > args.until =>
              /\ log.sched_reqs = <<>>
              /\ log.box_reqs = <<>>
              /\ performances = <<>>

\* C6: for any since and until and any pattern of transport failures the scan
\* terminates, having requested the schedule of every day of [since, until]
\* exactly once in ascending order; a failed schedule fetch yields nothing
\* for its day and the scan goes on; with since > until nothing is fetched.
C6_ScanTerminates == []C6_ScheduleOrder /\ (Running ~> Finished)

\* C6 witness: a run over two or more days has ended, the schedule fetch of
\* its first day failed, and a later day yielded performances.
C6_Witness ==
    /\ Finished
    /\ args.since < args.until
    /\ args.since \notin log.sched_ok
    /\ performances /= <<>>

\* C7: a failed box-score fetch skips that game only: it yields nothing, and
\* every game listed on a day whose schedule was fetched is requested unless
\* it was seen before; the performances emitted are those of every fetched
\* box score, in request order.
C7_BoxFailureSkipsOneGame ==
    pc /= "idle" =>
        /\ performances = EmittedBy(log.box_reqs)
        /\ \A d \in log.sched_ok :
              d < current =>
                  \A i \in DOMAIN Listed(d) :
                      \/ Listed(d)[i].game_id \in InitialSeen
                      \/ \E j \in DOMAIN log.box_reqs :
                            log.box_reqs[j].game_id = Listed(d)[i].game_id

\* C7 witness: on one day a box-score fetch failed and a later game of the
\* same day was fetched and yielded performances.
C7_Witness ==
    /\ Finished
    /\ \E i \in DOMAIN log.box_reqs, j \in DOMAIN log.box_reqs :
          /\ i < j
          /\ log.box_reqs[i].game_date = log.box_reqs[j].game_date
          /\ log.box_reqs[i].game_id \notin log.box_ok
          /\ log.box_reqs[j].game_id \in log.box_ok
          /\ \E n \in DOMAIN performances :
                performances[n].game_id = log.box_reqs[j].game_id

\* C8: within one scan no game's box score is requested twice, failed
\* requests counted, and none is requested for a game of the initial
\* seen-set; a requested game is in seen_ids whether its fetch succeeded or
\* not; no performance is emitted for a game of the initial seen-set.
C8_EachGameAtMostOnce ==
    pc /= "idle" =>
        /\ \A i \in DOMAIN log.box_reqs, j \in DOMAIN log.box_reqs :
              i /= j => log.box_reqs[i].game_id /= log.box_reqs[j].game_id
        /\ \A i \in DOMAIN log.box_reqs :
              /\ log.box_reqs[i].game_id \notin InitialSeen
              /\ log.box_reqs[i].game_id \in seen_ids
        /\ \A i \in DOMAIN performances :
              performances[i].game_id \notin InitialSeen

\* C8 witness: a game whose box-score fetch failed was listed again on a
\* later day, and a game of the initial seen-set was listed too.
C8_Witness ==
    /\ Finished
    /\ \E d1 \in log.sched_ok, d2 \in log.sched_ok :
          /\ d1 < d2
          /\ \E i \in DOMAIN Listed(d1), j \in DOMAIN Listed(d2) :
                /\ Listed(d1)[i].game_id = Listed(d2)[j].game_id
                /\ Listed(d1)[i].game_id \notin log.box_ok
                /\ Listed(d1)[i].game_id \notin InitialSeen
          /\ \E i \in DOMAIN Listed(d1) : Listed(d1)[i].game_id \in InitialSeen

\* the set of the members of a sequence that satisfy the stated rule
EligibleOf(perfs) ==
    {perfs[i] : i \in {n \in DOMAIN perfs :
                          isEligible(perfs[n].fgm, perfs[n].fga, perfs[n].fg_pct)}}

\* C9: starting from the empty table, the rows stored after a run that is not
\* a dry run are exactly the eligible performances of the games whose
\* schedule day and box score were both fetched.
C9_StoredExactlyEligible ==
    (pc = "done" /\ ~args.dry_run /\ before = {}) =>
        store = EligibleOf(EmittedBy(log.box_reqs))

\* C9, the scenario: the schedule fetch of day 1 fails, day 2 lists one game
\* whose box score has two team sections of one player row each, one of
\* them eligible; then exactly one row is stored and seen_ids holds the game.
C9_Scenario ==
    (/\ pc = "done" /\ ~args.dry_run /\ before = {}
     /\ args.since = 1 /\ args.until = 2
     /\ log.sched_ok = {2}
     /\ Len(log.box_reqs) = 1
     /\ log.box_reqs[1].game_id \in log.box_ok
     /\ Len(performances) = 2
     /\ performances[1].team_abbr /= performances[2].team_abbr
     /\ Cardinality(EligibleOf(performances)) = 1
     /\ \A i \in DOMAIN performances : ~performances[i].fg_pct.nan)
    => /\ Cardinality(store) = 1
       /\ store = EligibleOf(performances)
       /\ log.box_reqs[1].game_id \in seen_ids

\* C10: a dry run writes nothing: from the start of the run on, the table is
\* as it was before the run.
C10_DryRunWritesNothing ==
    (pc /= "idle" /\ args.dry_run) => store = before

\* C10 witness: a dry run has ended, it found a qualifying performance, and
\* the table holds no row of that performance's key.
C10_Witness ==
    /\ pc = "done" /\ args.dry_run
    /\ \E i \in DOMAIN performances :
          /\ is_valid_tour_date(performances[i])
          /\ RowsOfKey(store, Key(performances[i])) = {}

\* the sections scrape_game_box_score keeps: a header with a recognised
\* team name and at least one parsed player row
Extracted(doc) ==
    SelectSeq(doc, LAMBDA s : TEAM_NAME_TO_ABBR(s.team_name) /= "" /\ s.players /= <<>>)

RECURSIVE CountPlayers(_)
CountPlayers(sections) ==
    IF sections = <<>> THEN 0
    ELSE Len(Head(sections).players) + CountPlayers(Tail(sections))

StoredBefore == {r.game_id : r \in {x \in first.store : x.season = args.season}}

\* C12: when main is run a second time with the same season and range,
\* against the table the first run left and the same answers of the
\* transport, the second run requests no box score of a game that has a
\* stored row for the season, and once it has returned the table is the
\* table the first run left.
C12_RerunIdempotent ==
    first.run = 2 =>
        /\ \A i \in DOMAIN log.box_reqs : log.box_reqs[i].game_id \notin StoredBefore
        /\ pc = "done" => store = first.store

\* C12: a second run that has returned after a first run that wrote: the
\* first run fetched a game and stored a row of it, the second run found
\* that game listed again and passed over it, and fetched another game
\* that has no stored row
C12_Witness ==
    /\ first.run = 2
    /\ pc = "done"
    /\ ~args.dry_run
    /\ first.log.box_ok \cap StoredBefore /= {}
    /\ \E d \in log.sched_ok : \E i \in DOMAIN Listed(d) :
           Listed(d)[i].game_id \in first.log.box_ok \cap StoredBefore
    /\ log.box_reqs /= <<>>
    /\ store = first.store

====
